---------------------------- MODULE Spec2Model ----------------------------
(***************************************************************************)
(* Model of ghostwriter's DocumentStatistics (src/documentstatistics.cpp). *)
(*                                                                         *)
(* A text is a sequence of characters, a character a one-character string  *)
(* (the paragraph separator of a multi-paragraph selection is the token    *)
(* ParagraphSeparator).  The document is a sequence of blocks, each with    *)
(* its text and its userData slot (NULL or a TextBlockData record).         *)
(*                                                                         *)
(* Five specifications share the module:                                   *)
(*   Spec           the object and its four handlers, driven by edits      *)
(*   SpecWords      countWords applied to every text up to MaxTextLen      *)
(*   SpecCalc       the readability calculators applied to bounded counts  *)
(*   SpecSentences  countSentences under every boundary finder             *)
(*   SpecWalk       onTextChanged block by block, one step per statement   *)
(***************************************************************************)
EXTENDS Integers, Sequences, FiniteSets, TLC

VARIABLES
    document,   \* d->document: <<[text, userData]>>, one record per QTextBlock
    d,          \* the fields of DocumentStatisticsPrivate
    emitted,    \* the signals emitted by the last handler, in order: <<[signal, value]>>
    lastEvent,  \* the handler that ran last
    selection,  \* the arguments of onTextSelected, when it was the handler that ran last
    repeated,   \* the last two handlers were both onTextChanged, the second with no edit
    contentEvent, \* the last event that changed the document's content
    text,       \* SpecWords: the text given to countWords
    counted,    \* SpecWords: what countWords returned for it
    calcIn,     \* SpecCalc: [characters, words, longWords, sentences]
    calcOut,    \* SpecCalc: what the calculators returned for calcIn
    sentenceText, \* SpecSentences: the text given to countSentences
    finderBoundaries, \* SpecSentences: the boundaries the finder reports for it
    sentencesCounted, \* SpecSentences: what countSentences returned
    walk        \* SpecWalk: where onTextChanged stands: [pc, block, visited, batches]

vars == <<document, d, emitted, lastEvent, selection, repeated, contentEvent,
          text, counted, calcIn, calcOut, sentenceText, finderBoundaries,
          sentencesCounted,
          walk>>

sysVars == <<document, d, emitted, lastEvent, selection, repeated, contentEvent>>
wordVars == <<text, counted>>
calcVars == <<calcIn, calcOut>>
sentVars == <<sentenceText, finderBoundaries, sentencesCounted>>
walkVars == <<walk>>

-----------------------------------------------------------------------------
(* Bounds of the model.                                                    *)

\* Spec: most paragraphs of a document that is being edited
MaxBlocks == 2
\* Spec: most characters (paragraph texts together) of a document being edited
MaxDocChars == 3
\* Spec: a selection starts and ends within the first MaxSelectionOffset
\* characters of the document, or where a paragraph starts or ends
MaxSelectionOffset == 10
\* SpecWords: longest text given to countWords
MaxTextLen == 10
\* SpecCalc: largest character count given to the calculators
MaxCalcChars == 12
\* SpecCalc: largest word count and sentence count given to the calculators
MaxCalcWords == 6
\* SpecSentences: longest text given to countSentences
MaxSentenceLen == 6
\* SpecWalk: most paragraphs of a document onTextChanged walks
MaxWalkBlocks == 3

-----------------------------------------------------------------------------
(* Characters and their QChar classes.                                     *)

\* a userData slot is <<>> (nullptr) or <<blockData>> (a TextBlockData)
NULL == <<>>

\* U+2029, which QTextCursor::selectedText() puts between paragraphs
ParagraphSeparator == "PS"

Lower == {"a", "b", "c", "d", "e", "f", "g", "h", "i", "j", "k", "l", "m",
          "n", "o", "p", "q", "r", "s", "t", "u", "v", "w", "x", "y", "z"}
Upper == {"A", "B", "C", "D", "E", "F", "G", "H", "I", "J", "K", "L", "M",
          "N", "O", "P", "Q", "R", "S", "T", "U", "V", "W", "X", "Y", "Z"}
Digit == {"0", "1", "2", "3", "4", "5", "6", "7", "8", "9"}
Terminator == {".", "?", "!"}

isLetterOrNumber(c) == c \in Lower \cup Upper \cup Digit

isSpace(c) == c \in {" ", "\t", ParagraphSeparator}

\* the characters an edit types in Spec: a letter, a space and a full stop
\* (a separator for countWords, a sentence terminator for the boundary finder)
EditAlphabet == {"A", " ", "."}

\* the characters SpecWords builds its texts from
WordAlphabet == {"a", "-", " "}

-----------------------------------------------------------------------------
(* QString::trimmed()                                                      *)

RECURSIVE DropLeadingSpace(_)
DropLeadingSpace(t) ==
    IF t # <<>> /\ isSpace(Head(t)) THEN DropLeadingSpace(Tail(t)) ELSE t

RECURSIVE DropTrailingSpace(_)
DropTrailingSpace(t) ==
    IF t # <<>> /\ isSpace(t[Len(t)])
    THEN DropTrailingSpace(SubSeq(t, 1, Len(t) - 1))
    ELSE t

trimmed(t) == DropTrailingSpace(DropLeadingSpace(t))

-----------------------------------------------------------------------------
(* countWords: one left-to-right scan.  The scan state is the function's   *)
(* locals and its three reference parameters.                              *)

countWordsStart ==
    [inWord |-> FALSE, separatorCount |-> 0, wordLen |-> 0,
     words |-> 0, lixLongWords |-> 0, alphaNumericCharacters |-> 0]

\* countWordsSeparator with the absorbed separator left in the character count
countWordsSeparator_KeepsSeparator(s, sc) ==
    IF sc > 1
    THEN [s EXCEPT !.separatorCount = 0,
                   !.inWord = FALSE,
                   !.words = @ + 1,
                   !.lixLongWords = IF s.wordLen - 1 > 6 THEN @ + 1 ELSE @,
                   !.wordLen = 0]
    ELSE [s EXCEPT !.separatorCount = sc,
                   !.wordLen = @ + 1,
                   !.alphaNumericCharacters = @ + 1]

\* the separator branch when the scan is inside a word (lines 342-358)
countWordsSeparator(s, sc) ==
    IF sc > 1
    THEN [s EXCEPT !.separatorCount = 0,
                   !.inWord = FALSE,
                   !.words = @ + 1,
                   !.alphaNumericCharacters = @ - 1,
                   !.lixLongWords = IF s.wordLen - 1 > 6 THEN @ + 1 ELSE @,
                   !.wordLen = 0]
    ELSE [s EXCEPT !.separatorCount = sc,
                   !.wordLen = @ + 1,
                   !.alphaNumericCharacters = @ + 1]

\* one iteration of the for loop whose first branch leaves separatorCount
countWordsChar_KeepsSeparatorCount(s, c) ==
    IF isLetterOrNumber(c)
    THEN [s EXCEPT !.inWord = TRUE,
                   !.wordLen = @ + 1,
                   !.alphaNumericCharacters = @ + 1]
    ELSE IF isSpace(c) /\ s.inWord
    THEN LET len == IF s.separatorCount > 0 THEN s.wordLen - 1 ELSE s.wordLen
         IN  [s EXCEPT !.inWord = FALSE,
                       !.words = @ + 1,
                       !.alphaNumericCharacters =
                           IF s.separatorCount > 0 THEN @ - 1 ELSE @,
                       !.separatorCount = 0,
                       !.lixLongWords = IF len > 6 THEN @ + 1 ELSE @,
                       !.wordLen = 0]
    ELSE LET sc == s.separatorCount + 1
         IN  IF s.inWord
             THEN countWordsSeparator(s, sc)
             ELSE [s EXCEPT !.separatorCount = sc]

\* one iteration of the for loop, on character c
countWordsChar(s, c) ==
    IF isLetterOrNumber(c)
    THEN [s EXCEPT !.inWord = TRUE,
                   !.separatorCount = 0,
                   !.wordLen = @ + 1,
                   !.alphaNumericCharacters = @ + 1]
    ELSE IF isSpace(c) /\ s.inWord
    THEN LET len == IF s.separatorCount > 0 THEN s.wordLen - 1 ELSE s.wordLen
         IN  [s EXCEPT !.inWord = FALSE,
                       !.words = @ + 1,
                       !.alphaNumericCharacters =
                           IF s.separatorCount > 0 THEN @ - 1 ELSE @,
                       !.separatorCount = 0,
                       !.lixLongWords = IF len > 6 THEN @ + 1 ELSE @,
                       !.wordLen = 0]
    ELSE LET sc == s.separatorCount + 1
         IN  IF s.inWord
             THEN countWordsSeparator(s, sc)
             ELSE [s EXCEPT !.separatorCount = sc]

\* the iterations of the for loop on t[first..last], in order.  The range
\* is halved, and the scan state after the first half is evaluated (by the
\* test on it) before the second half starts, so that a long text does not
\* nest the evaluation deeply.
RECURSIVE countWordsRange(_, _, _, _)
countWordsRange(t, first, last, s) ==
    IF first > last THEN s
    ELSE IF first = last THEN countWordsChar(s, t[first])
    ELSE LET mid == (first + last) \div 2
             half == countWordsRange(t, first, mid, s)
         IN  IF half.inWord \in BOOLEAN
             THEN countWordsRange(t, mid + 1, last, half)
             ELSE half

\* the for loop from index i on
countWordsLoop(t, i, s) == countWordsRange(t, i, Len(t), s)

\* the code after the loop without the correction for a pending separator
countWordsEnd_NoCorrection(s) ==
    IF s.inWord
    THEN [s EXCEPT !.words = @ + 1,
                   !.lixLongWords = IF s.wordLen > 6 THEN @ + 1 ELSE @]
    ELSE s

\* the code after the loop without words++
countWordsEnd_NoFinalWord(s) ==
    IF s.inWord
    THEN LET len == IF s.separatorCount > 0 THEN s.wordLen - 1 ELSE s.wordLen
         IN  [s EXCEPT !.alphaNumericCharacters =
                           IF s.separatorCount > 0 THEN @ - 1 ELSE @,
                       !.lixLongWords = IF len > 6 THEN @ + 1 ELSE @]
    ELSE s

\* the code after the loop: the word the text ends in
countWordsEnd(s) ==
    IF s.inWord
    THEN LET len == IF s.separatorCount > 0 THEN s.wordLen - 1 ELSE s.wordLen
         IN  [s EXCEPT !.words = @ + 1,
                       !.alphaNumericCharacters =
                           IF s.separatorCount > 0 THEN @ - 1 ELSE @,
                       !.lixLongWords = IF len > 6 THEN @ + 1 ELSE @]
    ELSE s

countWords(t) ==
    LET s == countWordsEnd(countWordsLoop(t, 1, countWordsStart))
    IN  [words |-> s.words,
         lixLongWords |-> s.lixLongWords,
         alphaNumericCharacters |-> s.alphaNumericCharacters]

-----------------------------------------------------------------------------
(* countSentences.  QTextBoundaryFinder is Qt's; the model gives it the    *)
(* sentence boundaries of a text as a set of positions and steps through   *)
(* them the way toNextBoundary() does.                                     *)

\* the position before i from which only whitespace lies up to i
RECURSIVE SkipSpaceBack(_, _)
SkipSpaceBack(t, i) ==
    IF i >= 1 /\ isSpace(t[i]) /\ t[i] # ParagraphSeparator
    THEN SkipSpaceBack(t, i - 1)
    ELSE i

\* The boundaries the finder reports for t, as positions 1..Len(t): the end
\* of the text, the position after a paragraph separator, and the position
\* after a run of terminators and at least one space when the next
\* character starts a sentence (neither space, terminator nor lower case).
SentenceBoundaries(t) ==
    {i \in 1..Len(t) :
        \/ i = Len(t)
        \/ t[i] = ParagraphSeparator
        \/ /\ isSpace(t[i])
           /\ ~isSpace(t[i + 1])
           /\ t[i + 1] \notin Terminator \cup Lower
           /\ SkipSpaceBack(t, i) >= 1
           /\ t[SkipSpaceBack(t, i)] \in Terminator}

Min(S) == CHOOSE x \in S : \A y \in S : x <= y

\* QTextBoundaryFinder::toNextBoundary() from position pos: -1 when none
toNextBoundary(boundaries, pos) ==
    IF \E b \in boundaries : b > pos
    THEN Min({b \in boundaries : b > pos})
    ELSE -1

\* the test of lines 393-398 without the look at the character
countsStep_AnyStep(trimmedText, oldPos, nextPos) ==
    (nextPos - oldPos) > 0

\* the test of lines 393-398: trimmedText[oldPos] of the code is the
\* character at index oldPos + 1 here
countsStep(trimmedText, oldPos, nextPos) ==
    \/ (nextPos - oldPos) > 1
    \/ /\ (nextPos - oldPos) > 0
       /\ ~isSpace(trimmedText[oldPos + 1])

\* the while loop of countSentences
RECURSIVE countSentencesLoop(_, _, _, _)
countSentencesLoop(trimmedText, boundaries, nextSentencePos, count) ==
    IF nextSentencePos < 0
    THEN count
    ELSE LET oldPos == nextSentencePos
             nextPos == toNextBoundary(boundaries, oldPos)
         IN  countSentencesLoop(trimmedText, boundaries, nextPos,
                                IF countsStep(trimmedText, oldPos, nextPos)
                                THEN count + 1 ELSE count)

\* countSentences over a finder that reports the given boundaries of the
\* trimmed text
countSentencesWith(t, boundaries) ==
    LET trimmedText == trimmed(t)
    IN  IF Len(trimmedText) > 0
        THEN countSentencesLoop(trimmedText, boundaries, 0, 0)
        ELSE 0

countSentences(t) == countSentencesWith(t, SentenceBoundaries(trimmed(t)))

-----------------------------------------------------------------------------
(* The readability calculators.  The code divides in floating point and    *)
(* rounds up with qCeil; the model divides over the rationals, so          *)
(* qCeil(n / m) is the least integer not below n / m.                      *)

\* qCeil of the quotient n / m, m > 0
qCeil(n, m) == -((-n) \div m)

\* C++ integer division of non-negative operands
calculatePageCount(words) == words \div 250

calculateReadingTime(words) == words \div 270

\* qCeil(5.88 * characters / words - 29.6 * sentences / words - 15.8)
cliRaw(characters, words, sentences) ==
    qCeil(588 * characters - 2960 * sentences - 1580 * words, 100 * words)

\* calculateCLI with the test of sentences left out of the guard
calculateCLI_WordsGuardOnly(characters, words, sentences) ==
    IF words > 0
    THEN IF cliRaw(characters, words, sentences) < 0
         THEN 0
         ELSE cliRaw(characters, words, sentences)
    ELSE 0

\* calculateCLI without the floor at 0
calculateCLI_NoFloor(characters, words, sentences) ==
    IF sentences > 0 /\ words > 0
    THEN cliRaw(characters, words, sentences)
    ELSE 0

calculateCLI(characters, words, sentences) ==
    IF sentences > 0 /\ words > 0
    THEN IF cliRaw(characters, words, sentences) < 0
         THEN 0
         ELSE cliRaw(characters, words, sentences)
    ELSE 0

calculateLIX(totalWords, longWords, sentences) ==
    IF totalWords > 0 /\ sentences > 0
    THEN qCeil(totalWords * totalWords + 100 * longWords * sentences,
               sentences * totalWords)
    ELSE 0

calculateComplexWords(totalWords, longWords) ==
    IF totalWords > 0 THEN qCeil(100 * longWords, totalWords) ELSE 0

\* the divisors of the divisions each calculator evaluates on its inputs
cliDivisors(characters, words, sentences) ==
    IF sentences > 0 /\ words > 0 THEN {words} ELSE {}

lixDivisors(totalWords, longWords, sentences) ==
    IF totalWords > 0 /\ sentences > 0 THEN {sentences, totalWords} ELSE {}

complexWordsDivisors(totalWords, longWords) ==
    IF totalWords > 0 THEN {totalWords} ELSE {}

-----------------------------------------------------------------------------
(* The document: blocks, positions and the text of a selection.            *)

Block(t, data) == [text |-> t, userData |-> data]

EmptyDocument == <<Block(<<>>, NULL)>>

RECURSIVE SumLen(_, _)
SumLen(doc, n) == IF n = 0 THEN 0 ELSE SumLen(doc, n - 1) + Len(doc[n].text)

\* the characters of the paragraphs' texts together
DocChars(doc) == SumLen(doc, Len(doc))

\* QTextDocument::characterCount(): every block ends in one separator
documentCharacterCount(doc) == DocChars(doc) + Len(doc)

\* DocumentStatistics::characterCount()
characterCount(doc) == documentCharacterCount(doc) - 1

\* QTextBlock::position() of block i
blockPosition(doc, i) == SumLen(doc, i - 1) + (i - 1)

\* QTextDocument::findBlock(pos): the block whose text or separator holds pos
findBlock(doc, pos) ==
    CHOOSE i \in 1..Len(doc) :
        blockPosition(doc, i) <= pos /\ pos <= blockPosition(doc, i) + Len(doc[i].text)

\* the document's characters in order, paragraphs joined by the separator
RECURSIVE documentText(_, _)
documentText(doc, n) ==
    IF n = 0 THEN <<>>
    ELSE IF n = 1 THEN doc[1].text
    ELSE documentText(doc, n - 1) \o <<ParagraphSeparator>> \o doc[n].text

\* QTextCursor::selectedText() of the selection [selectionStart, selectionEnd)
selectedTextOf(doc, selectionStart, selectionEnd) ==
    SubSeq(documentText(doc, Len(doc)), selectionStart + 1, selectionEnd)

-----------------------------------------------------------------------------
(* The statistics object.                                                  *)

Emit(signal, value) == [signal |-> signal, value |-> value]

\* updateStatistics without the assignment to pageCount
updateStatisticsFields_KeepsPageCount(dd) ==
    [dd EXCEPT !.readTimeMinutes = calculateReadingTime(dd.wordCount)]

\* DocumentStatisticsPrivate::updateStatistics(): the fields it leaves and
\* the signals it emits
updateStatisticsFields(dd) ==
    [dd EXCEPT !.pageCount = calculatePageCount(dd.wordCount),
               !.readTimeMinutes = calculateReadingTime(dd.wordCount)]

\* the character count with the trailing terminator left in
publishedCharacterCount_WithTerminator(doc) == documentCharacterCount(doc)

\* line 258: document->characterCount() - 1
publishedCharacterCount(doc) == documentCharacterCount(doc) - 1

\* updateStatistics with the emit of totalWordCountChanged left out
updateStatisticsEmits_NoTotal(dd, doc) ==
    << Emit("wordCountChanged", dd.wordCount),
       Emit("characterCountChanged", publishedCharacterCount(doc)),
       Emit("sentenceCountChanged", dd.sentenceCount),
       Emit("paragraphCountChanged", dd.paragraphCount),
       Emit("pageCountChanged", dd.pageCount),
       Emit("complexWordsChanged",
            calculateComplexWords(dd.wordCount, dd.lixLongWordCount)),
       Emit("readingTimeChanged", dd.readTimeMinutes),
       Emit("lixReadingEaseChanged",
            calculateLIX(dd.wordCount, dd.lixLongWordCount, dd.sentenceCount)),
       Emit("readabilityIndexChanged",
            calculateCLI(dd.wordCharacterCount, dd.wordCount, dd.sentenceCount)) >>

updateStatisticsEmits(dd, doc) ==
    << Emit("wordCountChanged", dd.wordCount),
       Emit("totalWordCountChanged", dd.wordCount),
       Emit("characterCountChanged", publishedCharacterCount(doc)),
       Emit("sentenceCountChanged", dd.sentenceCount),
       Emit("paragraphCountChanged", dd.paragraphCount),
       Emit("pageCountChanged", dd.pageCount),
       Emit("complexWordsChanged",
            calculateComplexWords(dd.wordCount, dd.lixLongWordCount)),
       Emit("readingTimeChanged", dd.readTimeMinutes),
       Emit("lixReadingEaseChanged",
            calculateLIX(dd.wordCount, dd.lixLongWordCount, dd.sentenceCount)),
       Emit("readabilityIndexChanged",
            calculateCLI(dd.wordCharacterCount, dd.wordCount, dd.sentenceCount)) >>

\* updateBlockStatistics, the block's side: its userData after the call
\* (allocated if it was NULL, then every field overwritten)
blockDataAfter(t) ==
    [wordCount |-> countWords(t).words,
     lixLongWordCount |-> countWords(t).lixLongWords,
     alphaNumericCharacterCount |-> countWords(t).alphaNumericCharacters,
     sentenceCount |-> countSentences(t)]

\* updateBlockStatistics writing only into an entry it has just allocated
userDataAfter_KeepsExisting(block) ==
    IF block.userData = NULL
    THEN <<blockDataAfter(block.text)>>
    ELSE block.userData

\* the block's userData slot after updateBlockStatistics: lines 272-275
\* allocate the entry if the slot is NULL, lines 277-290 assign its four
\* fields whether it is new or not
userDataAfter(block) == <<blockDataAfter(block.text)>>

\* updateBlockStatistics counting every paragraph, blank or not
updateBlockStatistics_CountsBlank(dd, t) ==
    LET blockData == blockDataAfter(t)
    IN  [dd EXCEPT !.wordCount = @ + blockData.wordCount,
                   !.lixLongWordCount = @ + blockData.lixLongWordCount,
                   !.wordCharacterCount = @ + blockData.alphaNumericCharacterCount,
                   !.sentenceCount = @ + blockData.sentenceCount,
                   !.paragraphCount = @ + 1]

\* updateBlockStatistics, the totals' side
updateBlockStatistics(dd, t) ==
    LET blockData == blockDataAfter(t)
    IN  [dd EXCEPT !.wordCount = @ + blockData.wordCount,
                   !.lixLongWordCount = @ + blockData.lixLongWordCount,
                   !.wordCharacterCount = @ + blockData.alphaNumericCharacterCount,
                   !.sentenceCount = @ + blockData.sentenceCount,
                   !.paragraphCount = IF Len(trimmed(t)) > 0 THEN @ + 1 ELSE @]

\* the walk of onTextChanged from firstBlock() to lastBlock(): the totals
\* after blocks 1..n have been visited
RECURSIVE visitBlocks(_, _, _)
visitBlocks(dd, doc, n) ==
    IF n = 0 THEN dd
    ELSE updateBlockStatistics(visitBlocks(dd, doc, n - 1), doc[n].text)

NoSelection == [selectedText |-> <<>>, selectionStart |-> 0, selectionEnd |-> 0]

\* the reset of onTextChanged without the line for wordCount
onTextChangedReset_KeepsWordCount(dd) ==
    [dd EXCEPT !.wordCharacterCount = 0,
               !.sentenceCount = 0,
               !.paragraphCount = 0,
               !.pageCount = 0,
               !.lixLongWordCount = 0,
               !.readTimeMinutes = 0]

\* the reset of onTextChanged without the line for sentenceCount
onTextChangedReset_KeepsSentenceCount(dd) ==
    [dd EXCEPT !.wordCount = 0,
               !.wordCharacterCount = 0,
               !.paragraphCount = 0,
               !.pageCount = 0,
               !.lixLongWordCount = 0,
               !.readTimeMinutes = 0]

\* the totals onTextChanged starts its walk from, lines 225-231
onTextChangedReset(dd) ==
    [dd EXCEPT !.wordCount = 0,
               !.wordCharacterCount = 0,
               !.sentenceCount = 0,
               !.paragraphCount = 0,
               !.pageCount = 0,
               !.lixLongWordCount = 0,
               !.readTimeMinutes = 0]

\* the state onTextChanged leaves, given the document as edited; an edit
\* changes the text of a block or the number of blocks
onTextChanged(doc) ==
    LET visited == visitBlocks(onTextChangedReset(d), doc, Len(doc))
        after == updateStatisticsFields(visited)
    IN  /\ document' = [i \in 1..Len(doc) |->
                            Block(doc[i].text, userDataAfter(doc[i]))]
        /\ d' = after
        /\ emitted' = updateStatisticsEmits(after, doc)
        /\ lastEvent' = "changed"
        /\ selection' = NoSelection
        /\ repeated' = (lastEvent = "changed" /\ doc = document)
        /\ contentEvent' = "changed"

-----------------------------------------------------------------------------
(* Spec: the object from its construction on.                              *)

\* the paragraphs "The quick brown fox.", "" and "It jumps."
ExampleDocument ==
    << Block(<<"T", "h", "e", " ", "q", "u", "i", "c", "k", " ", "b", "r", "o", "w", "n", " ", "f", "o", "x", ".">>,
             NULL),
       Block(<<>>, NULL),
       Block(<<"I", "t", " ", "j", "u", "m", "p", "s", ".">>, NULL) >>

\* the paragraphs "well-known" and "Reading A."
LongWordDocument ==
    << Block(<<"w", "e", "l", "l", "-", "k", "n", "o", "w", "n">>, NULL),
       Block(<<"R", "e", "a", "d", "i", "n", "g", " ", "A", ".">>, NULL) >>

\* n one-letter words with a space between them
RepeatWords(n) == [i \in 1..(2 * n - 1) |-> IF i % 2 = 1 THEN "A" ELSE " "]

\* a paragraph of 250 words (a page) and one of 20 more (270: a minute)
BigDocument ==
    << Block(RepeatWords(250), NULL), Block(RepeatWords(20), NULL) >>

\* the documents the object is constructed over; no block has userData yet
InitialDocuments ==
    {EmptyDocument, <<Block(<<"A">>, NULL)>>, ExampleDocument, LongWordDocument,
     BigDocument}

\* onTextChanged is not running
NotWalking == [pc |-> "idle", block |-> 0, visited |-> <<>>, batches |-> 0]

\* the constructor, lines 88-96
Init ==
    /\ document \in InitialDocuments
    /\ d = [wordCount |-> 0, totalWordCount |-> 0, wordCharacterCount |-> 0,
            sentenceCount |-> 0, paragraphCount |-> 0, pageCount |-> 0,
            lixLongWordCount |-> 0, readTimeMinutes |-> 0]
    /\ emitted = <<>>
    /\ lastEvent = "constructed"
    /\ selection = NoSelection
    /\ repeated = FALSE
    /\ contentEvent = "constructed"
    /\ text = <<>>
    /\ counted = countWords(<<>>)
    /\ sentenceText = <<>>
    /\ finderBoundaries = {}
    /\ sentencesCounted = 0
    /\ walk = NotWalking
    /\ calcIn = [characters |-> 0, words |-> 0, longWords |-> 0, sentences |-> 0]
    /\ calcOut = [cli |-> 0, lix |-> 0, complexWords |-> 0, pageCount |-> 0,
                  readingTime |-> 0]

\* a document small enough for the model to go on editing it
Editable == DocChars(document) <= MaxDocChars /\ Len(document) <= MaxBlocks

\* the user types character c at offset pos of block b; contentsChange
InsertChar ==
    \E b \in 1..Len(document), c \in EditAlphabet :
        \E pos \in 0..Len(document[b].text) :
            /\ Editable
            /\ DocChars(document) < MaxDocChars
            /\ onTextChanged(
                 [document EXCEPT ![b].text =
                     SubSeq(@, 1, pos) \o <<c>> \o SubSeq(@, pos + 1, Len(@))])
            /\ UNCHANGED <<wordVars, calcVars, sentVars, walkVars>>

\* the user deletes the character at offset pos of block b; contentsChange
RemoveChar ==
    \E b \in 1..Len(document) :
        \E pos \in 1..Len(document[b].text) :
            /\ Editable
            /\ onTextChanged(
                 [document EXCEPT ![b].text =
                     SubSeq(@, 1, pos - 1) \o SubSeq(@, pos + 1, Len(@))])
            /\ UNCHANGED <<wordVars, calcVars, sentVars, walkVars>>

\* the user breaks block b at offset pos: the new block has no userData
SplitBlock ==
    \E b \in 1..Len(document) :
        \E pos \in 0..Len(document[b].text) :
            /\ Editable
            /\ Len(document) < MaxBlocks
            /\ onTextChanged(
                 SubSeq(document, 1, b - 1)
                 \o << Block(SubSeq(document[b].text, 1, pos), document[b].userData),
                       Block(SubSeq(document[b].text, pos + 1, Len(document[b].text)),
                             NULL) >>
                 \o SubSeq(document, b + 1, Len(document)))
            /\ UNCHANGED <<wordVars, calcVars, sentVars, walkVars>>

\* the user deletes the break between blocks b and b + 1
MergeBlocks ==
    \E b \in 1..(Len(document) - 1) :
        /\ Editable
        /\ onTextChanged(
             SubSeq(document, 1, b - 1)
             \o << Block(document[b].text \o document[b + 1].text,
                         document[b].userData) >>
             \o SubSeq(document, b + 2, Len(document)))
        /\ UNCHANGED <<wordVars, calcVars, sentVars, walkVars>>

\* contentsChange with the text as it was (a change of format)
FormatChanged ==
    /\ onTextChanged(document)
    /\ UNCHANGED <<wordVars, calcVars, sentVars, walkVars>>

\* the cleared lambda without the line for lixLongWordCount
clearedReset_KeepsLongWords(dd) ==
    [dd EXCEPT !.wordCount = 0,
               !.wordCharacterCount = 0,
               !.sentenceCount = 0,
               !.paragraphCount = 0,
               !.pageCount = 0,
               !.readTimeMinutes = 0]

\* the assignments of the cleared lambda, lines 102-108
clearedReset(dd) ==
    [dd EXCEPT !.wordCount = 0,
               !.wordCharacterCount = 0,
               !.sentenceCount = 0,
               !.paragraphCount = 0,
               !.pageCount = 0,
               !.lixLongWordCount = 0,
               !.readTimeMinutes = 0]

\* MarkdownDocument::cleared, after the document was emptied: the lambda of
\* the constructor
Cleared ==
    LET after == updateStatisticsFields(clearedReset(d))
    IN  /\ document' = EmptyDocument
        /\ d' = after
        /\ emitted' = updateStatisticsEmits(after, EmptyDocument)
        /\ lastEvent' = "cleared"
        /\ selection' = NoSelection
        /\ repeated' = FALSE
        /\ contentEvent' = "cleared"
        /\ UNCHANGED <<wordVars, calcVars, sentVars, walkVars>>

\* the loop of onTextSelected without the test for nullptr
selectedParagraphCountOf_IgnoresUserData(doc, selectionStart, selectionEnd) ==
    Cardinality({i \in findBlock(doc, selectionStart)..findBlock(doc, selectionEnd) :
                    Len(trimmed(doc[i].text)) > 0})

\* the loop of onTextSelected over the blocks of the selection
selectedParagraphCountOf(doc, selectionStart, selectionEnd) ==
    Cardinality({i \in findBlock(doc, selectionStart)..findBlock(doc, selectionEnd) :
                    doc[i].userData # NULL /\ Len(trimmed(doc[i].text)) > 0})

\* the signals onTextSelected emits
onTextSelectedEmits(doc, selectedText, selectionStart, selectionEnd) ==
    LET sel == countWords(selectedText)
        selectionWordCount == sel.words
        selectionLixLongWordCount == sel.lixLongWords
        selectionWordCharacterCount == sel.alphaNumericCharacters
        selectionSentenceCount == countSentences(selectedText)
    IN  << Emit("wordCountChanged", selectionWordCount),
           Emit("characterCountChanged", Len(selectedText)),
           Emit("sentenceCountChanged", selectionSentenceCount),
           Emit("paragraphCountChanged",
                selectedParagraphCountOf(doc, selectionStart, selectionEnd)),
           Emit("pageCountChanged", calculatePageCount(selectionWordCount)),
           Emit("complexWordsChanged",
                calculateComplexWords(selectionWordCount, selectionLixLongWordCount)),
           Emit("readingTimeChanged", calculateReadingTime(selectionWordCount)),
           Emit("lixReadingEaseChanged",
                calculateLIX(selectionWordCount, selectionLixLongWordCount,
                             selectionSentenceCount)),
           Emit("readabilityIndexChanged",
                calculateCLI(selectionWordCharacterCount, selectionWordCount,
                             selectionSentenceCount)) >>

\* onTextSelected storing the selection's word count
onTextSelectedFields_StoresWordCount(dd, selectedText) ==
    [dd EXCEPT !.wordCount = countWords(selectedText).words]

\* the fields of d after onTextSelected: its counts go to locals, lines
\* 169-181, and no field is assigned
onTextSelectedFields(dd, selectedText) == dd

\* the offsets a selection of the model starts or ends at
SelectionOffsets(doc) ==
    {p \in 0..characterCount(doc) :
        \/ p <= MaxSelectionOffset
        \/ \E i \in 1..Len(doc) :
              p \in {blockPosition(doc, i), blockPosition(doc, i) + Len(doc[i].text)}}

\* the user selects the characters from selectionStart up to selectionEnd
OnTextSelected ==
    \E selectionStart \in SelectionOffsets(document) :
        \E selectionEnd \in {p \in SelectionOffsets(document) : p > selectionStart} :
            LET selectedText == selectedTextOf(document, selectionStart, selectionEnd)
            IN  /\ emitted' = onTextSelectedEmits(document, selectedText,
                                                  selectionStart, selectionEnd)
                /\ selection' = [selectedText |-> selectedText,
                                 selectionStart |-> selectionStart,
                                 selectionEnd |-> selectionEnd]
                /\ d' = onTextSelectedFields(d, selectedText)
                /\ lastEvent' = "selected"
                /\ repeated' = FALSE
                /\ UNCHANGED <<document, contentEvent, wordVars, calcVars, sentVars, walkVars>>

\* what onTextDeselected publishes and leaves in d
onTextDeselectedFields(dd) == updateStatisticsFields(dd)

OnTextDeselected ==
    /\ d' = onTextDeselectedFields(d)
    /\ emitted' = updateStatisticsEmits(onTextDeselectedFields(d), document)
    /\ lastEvent' = "deselected"
    /\ selection' = NoSelection
    /\ repeated' = FALSE
    /\ UNCHANGED <<document, contentEvent, wordVars, calcVars, sentVars, walkVars>>

Next ==
    \/ InsertChar
    \/ RemoveChar
    \/ SplitBlock
    \/ MergeBlocks
    \/ FormatChanged
    \/ Cleared
    \/ OnTextSelected
    \/ OnTextDeselected

Spec == Init /\ [][Next]_vars

-----------------------------------------------------------------------------
(* SpecWords: countWords applied to every text over WordAlphabet of at     *)
(* most MaxTextLen characters.                                             *)

\* the text grows by one character and countWords is applied to it
TypeChar ==
    \E c \in WordAlphabet :
        /\ Len(text) < MaxTextLen
        /\ text' = Append(text, c)
        /\ counted' = countWords(text')
        /\ UNCHANGED <<sysVars, calcVars, sentVars, walkVars>>

InitWords == Init /\ document = EmptyDocument

NextWords == TypeChar

SpecWords == InitWords /\ [][NextWords]_vars

-----------------------------------------------------------------------------
(* SpecCalc: the calculators applied to bounded counts.                    *)

NotCalculated ==
    [cli |-> -1, lix |-> -1, complexWords |-> -1, pageCount |-> -1,
     readingTime |-> -1]

InitCalc ==
    /\ document = EmptyDocument
    /\ d = [wordCount |-> 0, totalWordCount |-> 0, wordCharacterCount |-> 0,
            sentenceCount |-> 0, paragraphCount |-> 0, pageCount |-> 0,
            lixLongWordCount |-> 0, readTimeMinutes |-> 0]
    /\ emitted = <<>>
    /\ lastEvent = "constructed"
    /\ selection = NoSelection
    /\ repeated = FALSE
    /\ contentEvent = "constructed"
    /\ text = <<>>
    /\ counted = countWords(<<>>)
    /\ sentenceText = <<>>
    /\ finderBoundaries = {}
    /\ sentencesCounted = 0
    /\ walk = NotWalking
    /\ calcIn \in [characters : 0..MaxCalcChars, words : 0..MaxCalcWords,
                   longWords : 0..MaxCalcWords, sentences : 0..MaxCalcWords]
    /\ calcOut = NotCalculated

\* the five calculators are applied to calcIn
Calculate ==
    /\ calcOut = NotCalculated
    /\ calcOut' =
         [cli |-> calculateCLI(calcIn.characters, calcIn.words, calcIn.sentences),
          lix |-> calculateLIX(calcIn.words, calcIn.longWords, calcIn.sentences),
          complexWords |-> calculateComplexWords(calcIn.words, calcIn.longWords),
          pageCount |-> calculatePageCount(calcIn.words),
          readingTime |-> calculateReadingTime(calcIn.words)]
    /\ UNCHANGED <<sysVars, wordVars, calcIn, sentVars, walkVars>>

NextCalc == Calculate

SpecCalc == InitCalc /\ [][NextCalc]_vars

-----------------------------------------------------------------------------
(* SpecSentences: countSentences over a finder that may report any         *)
(* increasing positions of the trimmed text.  A text grows by one          *)
(* character, a finder is made for its trimmed text, and countSentences    *)
(* is applied.                                                             *)

SentenceAlphabet == {"a", " "}

CountSentencesOf ==
    \E c \in SentenceAlphabet :
        /\ Len(sentenceText) < MaxSentenceLen
        /\ sentenceText' = Append(sentenceText, c)
        /\ finderBoundaries' \in SUBSET (1..Len(trimmed(sentenceText')))
        /\ sentencesCounted' = countSentencesWith(sentenceText', finderBoundaries')
        /\ UNCHANGED <<sysVars, wordVars, calcVars, walkVars>>

InitSentences == Init /\ document = EmptyDocument

NextSentences == CountSentencesOf

SpecSentences == InitSentences /\ [][NextSentences]_vars

-----------------------------------------------------------------------------
(* SpecWalk: onTextChanged step by step.  walk.block is the paragraph the  *)
(* local variable block stands on, walk.visited the paragraphs given to    *)
(* updateBlockStatistics so far, walk.batches the calls of                 *)
(* updateStatistics.  The handler is straight-line code on one thread:     *)
(* once entered, each of its steps is taken.                               *)

WalkTexts == {<<>>, <<"A">>, <<"A", ".", " ", "A">>}

WalkDocuments ==
    UNION {[1..n -> {Block(t, NULL) : t \in WalkTexts}] : n \in 1..MaxWalkBlocks}

InitWalk ==
    /\ document \in WalkDocuments
    /\ d = [wordCount |-> 0, totalWordCount |-> 0, wordCharacterCount |-> 0,
            sentenceCount |-> 0, paragraphCount |-> 0, pageCount |-> 0,
            lixLongWordCount |-> 0, readTimeMinutes |-> 0]
    /\ emitted = <<>>
    /\ lastEvent = "constructed"
    /\ selection = NoSelection
    /\ repeated = FALSE
    /\ contentEvent = "constructed"
    /\ text = <<>>
    /\ counted = countWords(<<>>)
    /\ sentenceText = <<>>
    /\ finderBoundaries = {}
    /\ sentencesCounted = 0
    /\ calcIn = [characters |-> 0, words |-> 0, longWords |-> 0, sentences |-> 0]
    /\ calcOut = [cli |-> 0, lix |-> 0, complexWords |-> 0, pageCount |-> 0,
                  readingTime |-> 0]
    /\ walk = NotWalking

\* document->firstBlock()
startBlock(doc) == 1

\* an end block that is the first block
endBlock_IsFirstBlock(doc) == 1

\* document->lastBlock()
endBlock(doc) == Len(doc)

\* d->updateBlockStatistics(block) on paragraph b
WalkVisit(dd, b) ==
    /\ d' = updateBlockStatistics(dd, document[b].text)
    /\ document' = [document EXCEPT ![b].userData = userDataAfter(document[b])]
    /\ walk' = [walk EXCEPT !.pc = "loop",
                            !.block = b,
                            !.visited = Append(@, b)]

\* contentsChange arrives: lines 225-237, the reset and the first paragraph
WalkStart ==
    /\ walk.pc \in {"idle", "done"}
    /\ d' = updateBlockStatistics(onTextChangedReset(d),
                                  document[startBlock(document)].text)
    /\ document' = [document EXCEPT ![startBlock(document)].userData =
                                        userDataAfter(document[startBlock(document)])]
    /\ walk' = [pc |-> "loop", block |-> startBlock(document),
                visited |-> <<startBlock(document)>>, batches |-> 0]
    /\ UNCHANGED <<emitted, lastEvent, selection, repeated, contentEvent,
                   wordVars, calcVars, sentVars>>

\* lines 239-242: one turn of the while loop
WalkNext ==
    /\ walk.pc = "loop"
    /\ walk.block # endBlock(document)
    /\ WalkVisit(d, walk.block + 1)
    /\ UNCHANGED <<emitted, lastEvent, selection, repeated, contentEvent,
                   wordVars, calcVars, sentVars>>

\* line 246: the loop is left and updateStatistics publishes
WalkPublish ==
    /\ walk.pc = "loop"
    /\ walk.block = endBlock(document)
    /\ d' = updateStatisticsFields(d)
    /\ emitted' = updateStatisticsEmits(updateStatisticsFields(d), document)
    /\ walk' = [walk EXCEPT !.pc = "done", !.batches = @ + 1]
    /\ lastEvent' = "changed"
    /\ contentEvent' = "changed"
    /\ UNCHANGED <<document, selection, repeated, wordVars, calcVars, sentVars>>

NextWalk == WalkStart \/ WalkNext \/ WalkPublish

SpecWalk ==
    InitWalk /\ [][NextWalk]_vars /\ WF_vars(WalkNext) /\ WF_vars(WalkPublish)

-----------------------------------------------------------------------------
(* Properties.  Helpers first.                                             *)

\* the emits of one signal in the last handler's batch
EmittedOf(signal) == SelectSeq(emitted, LAMBDA e : e.signal = signal)

Occurrences(signal) == Len(EmittedOf(signal))

\* the value a signal carried in the last batch (the signal occurs in it)
Published(signal) == EmittedOf(signal)[1].value

TenSignals ==
    {"wordCountChanged", "totalWordCountChanged", "characterCountChanged",
     "sentenceCountChanged", "paragraphCountChanged", "pageCountChanged",
     "complexWordsChanged", "readingTimeChanged", "lixReadingEaseChanged",
     "readabilityIndexChanged"}

Texts(doc) == [i \in 1..Len(doc) |-> doc[i].text]

isSeparator(c) == ~isLetterOrNumber(c) /\ ~isSpace(c)

\* t[a..b] is a non-empty run of letters and digits
IsWordRun(t, a, b) == a <= b /\ \A i \in a..b : isLetterOrNumber(t[i])

\* t[a..b] is a non-empty run of separators
IsSeparatorRun(t, a, b) == a <= b /\ \A i \in a..b : isSeparator(t[i])

LongIf(n) == IF n > 6 THEN 1 ELSE 0

\* C1: for every text u s v, with u and v non-empty runs of letters and
\* digits and s one separator, countWords returns one word, |u| + |v|
\* alphanumeric characters and a long word exactly when |u| + |v| > 6.
C1_SingleSeparatorNotCounted ==
    \A k \in 2..(Len(text) - 1) :
        (/\ IsWordRun(text, 1, k - 1)
         /\ isSeparator(text[k])
         /\ IsWordRun(text, k + 1, Len(text)))
        => /\ counted.words = 1
           /\ counted.alphaNumericCharacters = Len(text) - 1
           /\ counted.lixLongWords = LongIf(Len(text) - 1)

\* C2 as stated: after a content-changed event on the example document the
\* batch carries paragraphCount 2, sentenceCount 2 and wordCount 7.
C2_ExampleSevenWords ==
    (lastEvent = "changed" /\ Texts(document) = Texts(ExampleDocument))
    => /\ Published("paragraphCountChanged") = 2
       /\ Published("sentenceCountChanged") = 2
       /\ Published("wordCountChanged") = 7

\* C2 as amended: after a content-changed event on the example document the
\* batch carries paragraphCount 2, sentenceCount 2 and wordCount 6.
C2_ExampleSixWords ==
    (lastEvent = "changed" /\ Texts(document) = Texts(ExampleDocument))
    => /\ Published("paragraphCountChanged") = 2
       /\ Published("sentenceCountChanged") = 2
       /\ Published("wordCountChanged") = 6

C2_Witness ==
    /\ lastEvent = "changed"
    /\ Texts(document) = Texts(ExampleDocument)
    /\ Published("wordCountChanged") = 6

\* C3 as stated: every batch, whatever event caused it, carries the
\* document's character length minus one as its characterCount.
C3_CharacterCountEveryBatch ==
    lastEvent # "constructed"
    => Published("characterCountChanged") = documentCharacterCount(document) - 1

\* C3 as amended: the batch of a content-changed, cleared or
\* selection-cleared event carries the document's character length minus
\* one as its characterCount, whatever the totals are; the batch of a
\* selection-changed event carries the length of the selected text.
C3_CharacterCountByEvent ==
    /\ lastEvent \in {"changed", "cleared", "deselected"}
       => Published("characterCountChanged") = documentCharacterCount(document) - 1
    /\ lastEvent = "selected"
       => Published("characterCountChanged") = Len(selection.selectedText)

C3_Witness ==
    /\ lastEvent = "selected"
    /\ Len(selection.selectedText) < documentCharacterCount(document) - 1
    /\ Published("characterCountChanged") = Len(selection.selectedText)

\* C4 as stated: the batch of every event holds each of the ten signals
\* exactly once.
C4_TenSignalsEveryBatch ==
    lastEvent # "constructed"
    => \A signal \in TenSignals : Occurrences(signal) = 1

\* C4 as amended: the batch of a content-changed, cleared or
\* selection-cleared event holds each of the ten signals exactly once; the
\* batch of a selection-changed event holds each of the nine signals other
\* than totalWordCountChanged exactly once and no totalWordCountChanged.
C4_BatchByEvent ==
    /\ lastEvent \in {"changed", "cleared", "deselected"}
       => /\ Len(emitted) = 10
          /\ \A signal \in TenSignals : Occurrences(signal) = 1
    /\ lastEvent = "selected"
       => /\ Len(emitted) = 9
          /\ Occurrences("totalWordCountChanged") = 0
          /\ \A signal \in TenSignals \ {"totalWordCountChanged"} :
                 Occurrences(signal) = 1

C4_Witness ==
    /\ lastEvent = "selected"
    /\ Len(emitted) = 9
    /\ Occurrences("totalWordCountChanged") = 0
    /\ d.wordCount > 0

\* the batch a whole-document recompute over doc publishes: reset the
\* totals, visit every paragraph, sum
WholeDocumentBatch(doc) ==
    updateStatisticsEmits(
        updateStatisticsFields(visitBlocks(onTextChangedReset(d), doc, Len(doc))),
        doc)

\* C5: the batch of a selection-cleared event is the batch of a
\* whole-document recompute over the document's current paragraphs.
C5_DeselectRestoresDocument ==
    lastEvent = "deselected" => emitted = WholeDocumentBatch(document)

RECURSIVE SumBlockData(_, _, _)
SumBlockData(doc, n, field) ==
    IF n = 0 THEN 0 ELSE SumBlockData(doc, n - 1, field) + doc[n].userData[1][field]

\* C6: when a content-changed event has finished, each stored total is the
\* sum of that field over the paragraphs' entries.
C6_TotalsAreSums ==
    lastEvent = "changed"
    => /\ \A i \in 1..Len(document) : document[i].userData # NULL
       /\ d.wordCount = SumBlockData(document, Len(document), "wordCount")
       /\ d.lixLongWordCount =
              SumBlockData(document, Len(document), "lixLongWordCount")
       /\ d.wordCharacterCount =
              SumBlockData(document, Len(document), "alphaNumericCharacterCount")
       /\ d.sentenceCount = SumBlockData(document, Len(document), "sentenceCount")

\* a second recompute in a row, over two paragraphs with words, a long word
\* and sentences
C6_Witness ==
    /\ lastEvent = "changed"
    /\ repeated
    /\ Len(document) >= 2
    /\ \A i \in 1..2 : document[i].userData[1].wordCount > 0
    /\ d.lixLongWordCount > 0
    /\ d.sentenceCount > 0

\* C7: a content-changed event that follows a content-changed event with no
\* edit between them publishes the same batch and leaves the same totals
\* and the same paragraph entries.
C7_RecomputeIdempotent ==
    [][repeated' => (emitted' = emitted /\ d' = d /\ document' = document)]_vars

C7_Witness ==
    /\ repeated
    /\ lastEvent = "changed"
    /\ d.wordCount > 0
    /\ d.sentenceCount > 0
    /\ d.paragraphCount > 0

\* C8: after a cleared event on a document that is then empty, every value
\* of the batch and every stored total is 0.
C8_ClearedAllZero ==
    (lastEvent = "cleared" /\ DocChars(document) = 0)
    => /\ Len(emitted) = 10
       /\ \A i \in 1..Len(emitted) : emitted[i].value = 0
       /\ \A field \in DOMAIN d : d[field] = 0

C8_Witness ==
    /\ lastEvent = "cleared"
    /\ document = EmptyDocument
    /\ Len(emitted) = 10

\* C9: for every text u s v, with u and v non-empty runs of letters and
\* digits and s a run of two or more separators, countWords returns two
\* words, |u| + |v| alphanumeric characters, and one long word for each of
\* u and v that is longer than 6.
C9_SeparatorRunSplits ==
    \A k \in 2..(Len(text) - 2) :
        \A m \in (k + 1)..(Len(text) - 1) :
            (/\ IsWordRun(text, 1, k - 1)
             /\ IsSeparatorRun(text, k, m)
             /\ IsWordRun(text, m + 1, Len(text)))
            => /\ counted.words = 2
               /\ counted.alphaNumericCharacters = (k - 1) + (Len(text) - m)
               /\ counted.lixLongWords = LongIf(k - 1) + LongIf(Len(text) - m)

\* seven letters, two separators, a letter
C9_Witness ==
    /\ Len(text) = 10
    /\ IsWordRun(text, 1, 7)
    /\ IsSeparatorRun(text, 8, 9)
    /\ IsWordRun(text, 10, 10)
    /\ counted = [words |-> 2, lixLongWords |-> 1, alphaNumericCharacters |-> 8]

\* C10: calculateCLI returns a value >= 0 for all non-negative characters,
\* words and sentences.
C10_CliNeverNegative ==
    calcOut # NotCalculated => calcOut.cli >= 0

\* the formula's value is below 0 and the result is 0
C10_Witness ==
    /\ calcOut # NotCalculated
    /\ calcIn.words > 0
    /\ calcIn.sentences > 0
    /\ cliRaw(calcIn.characters, calcIn.words, calcIn.sentences) < 0
    /\ calcOut.cli = 0

\* C11: calculateLIX and calculateCLI return 0 whenever words = 0 or
\* sentences = 0, calculateComplexWords returns 0 whenever totalWords = 0,
\* and no calculator evaluates a division by 0.
C11_DegenerateCountsYieldZero ==
    calcOut # NotCalculated
    => /\ (calcIn.words = 0 \/ calcIn.sentences = 0)
          => (calcOut.lix = 0 /\ calcOut.cli = 0)
       /\ calcIn.words = 0 => calcOut.complexWords = 0
       /\ 0 \notin cliDivisors(calcIn.characters, calcIn.words, calcIn.sentences)
       /\ 0 \notin lixDivisors(calcIn.words, calcIn.longWords, calcIn.sentences)
       /\ 0 \notin complexWordsDivisors(calcIn.words, calcIn.longWords)

\* words without a sentence, and characters enough for a positive index
C11_Witness ==
    /\ calcOut # NotCalculated
    /\ calcIn.words > 0
    /\ calcIn.sentences = 0
    /\ calcIn.longWords > 0
    /\ cliRaw(calcIn.characters, calcIn.words, calcIn.sentences) > 0
    /\ calcOut.cli = 0
    /\ calcOut.lix = 0
    /\ calcOut.complexWords > 0

\* the paragraphs of doc whose trimmed text is not empty
NonBlankParagraphs(doc) == {i \in 1..Len(doc) : Len(trimmed(doc[i].text)) > 0}

\* C12: between events the stored lixLongWordCount is at most wordCount,
\* every allocated paragraph entry has lixLongWordCount at most wordCount,
\* and the stored paragraphCount is at most the number of non-blank
\* paragraphs of the document, and equal to it after a content change.
C12_CountInvariants ==
    /\ d.lixLongWordCount <= d.wordCount
    /\ \A i \in 1..Len(document) :
          document[i].userData # NULL
          => document[i].userData[1].lixLongWordCount
                <= document[i].userData[1].wordCount
    /\ d.paragraphCount <= Cardinality(NonBlankParagraphs(document))
    /\ lastEvent = "changed"
       => d.paragraphCount = Cardinality(NonBlankParagraphs(document))

\* after a content change, a paragraph that is one long word, beside
\* another paragraph with words
C12_Witness ==
    /\ lastEvent = "changed"
    /\ \E i \in 1..Len(document) :
          /\ document[i].userData # NULL
          /\ document[i].userData[1].wordCount = 1
          /\ document[i].userData[1].lixLongWordCount = 1
    /\ d.lixLongWordCount > 0
    /\ d.wordCount > d.lixLongWordCount
    /\ d.paragraphCount = 2

\* the paragraphs from the one holding offset from through the one holding
\* offset to: a paragraph holds the offsets of its text and of its separator
ParagraphsInRange(doc, from, to) ==
    {i \in 1..Len(doc) :
        /\ blockPosition(doc, i) + Len(doc[i].text) >= from
        /\ blockPosition(doc, i) <= to}

\* C13: a selection publishes as paragraphCount the number of paragraphs of
\* its range that have an entry and a non-blank text: 0 when no paragraph
\* of the range has an entry, and the number of non-blank paragraphs of the
\* range when the content last changed by a content change.
C13_SelectionParagraphCount ==
    lastEvent = "selected"
    => LET range == ParagraphsInRange(document, selection.selectionStart,
                                      selection.selectionEnd)
           nonBlank == range \cap NonBlankParagraphs(document)
           cached == {i \in range : document[i].userData # NULL}
       IN  /\ Published("paragraphCountChanged") = Cardinality(nonBlank \cap cached)
           /\ cached = {} => Published("paragraphCountChanged") = 0
           /\ contentEvent = "changed"
              => Published("paragraphCountChanged") = Cardinality(nonBlank)

\* after a content change, a selection over three paragraphs, one of them
\* blank
C13_Witness ==
    /\ lastEvent = "selected"
    /\ contentEvent = "changed"
    /\ Cardinality(ParagraphsInRange(document, selection.selectionStart,
                                     selection.selectionEnd)) = 3
    /\ selection.selectionStart > 0
    /\ Published("paragraphCountChanged") = 2

\* C14: between events the stored pageCount is wordCount div 250 and the
\* stored readTimeMinutes is wordCount div 270, and every batch publishes
\* as pageCount and readingTime its published wordCount div 250 and div 270.
C14_DerivedFieldsConsistent ==
    /\ d.pageCount = d.wordCount \div 250
    /\ d.readTimeMinutes = d.wordCount \div 270
    /\ emitted # <<>>
       => /\ Published("pageCountChanged")
                = Published("wordCountChanged") \div 250
          /\ Published("readingTimeChanged")
                = Published("wordCountChanged") \div 270

\* a document of 270 words, of which 250 are selected: a page and a minute
\* stored, a page and no minute published
C14_Witness ==
    /\ lastEvent = "selected"
    /\ d.wordCount = 270
    /\ d.pageCount = 1
    /\ d.readTimeMinutes = 1
    /\ Published("wordCountChanged") = 250
    /\ Published("pageCountChanged") = 1
    /\ Published("readingTimeChanged") = 0

PreviousBoundary(boundaries, b) ==
    IF \E x \in boundaries : x < b
    THEN CHOOSE x \in boundaries :
             x < b /\ \A y \in boundaries : y < b => y <= x
    ELSE 0

\* C16: whatever increasing positions the finder reports, countSentences
\* returns the number of steps from a position to the next reported one
\* that are longer than 1, or of length 1 over a character of the trimmed
\* text that is not whitespace; the step on which the finder reports -1 is
\* not counted, and a text that trims to nothing gives 0.
C16_BoundaryStepRule ==
    LET trimmedText == trimmed(sentenceText)
        counting ==
            {b \in finderBoundaries :
                LET oldPos == PreviousBoundary(finderBoundaries, b)
                IN  \/ b - oldPos > 1
                    \/ b - oldPos = 1 /\ ~isSpace(trimmedText[b])}
    IN  /\ sentencesCounted = Cardinality(counting)
        /\ sentencesCounted <= Cardinality(finderBoundaries)
        /\ Len(trimmedText) = 0 => sentencesCounted = 0

\* a text with whitespace to trim, and a finder with a step of one over a
\* letter, a step of one over a space and a longer step
C16_Witness ==
    LET trimmedText == trimmed(sentenceText)
        stepLen(b) == b - PreviousBoundary(finderBoundaries, b)
    IN  /\ Len(trimmedText) < Len(sentenceText)
        /\ \E b \in finderBoundaries : stepLen(b) = 1 /\ isSpace(trimmedText[b])
        /\ \E b \in finderBoundaries : stepLen(b) = 1 /\ ~isSpace(trimmedText[b])
        /\ \E b \in finderBoundaries : stepLen(b) > 1
        /\ Len(trimmedText) \notin finderBoundaries
        /\ sentencesCounted = 2

\* C17: when a content change has been handled every paragraph has an
\* entry, and the entry's four counts are countWords and countSentences of
\* the paragraph's text as it is now.
C17_CacheCoherent ==
    lastEvent = "changed"
    => \A i \in 1..Len(document) :
          /\ document[i].userData # NULL
          /\ LET blockData == document[i].userData[1]
                 t == document[i].text
             IN  /\ blockData.wordCount = countWords(t).words
                 /\ blockData.lixLongWordCount = countWords(t).lixLongWords
                 /\ blockData.alphaNumericCharacterCount
                       = countWords(t).alphaNumericCharacters
                 /\ blockData.sentenceCount = countSentences(t)

\* two paragraphs typed into a document that started with at most one
\* character: the entries were there when the later edits were handled
C17_Witness ==
    /\ lastEvent = "changed"
    /\ Len(document) = 2
    /\ DocChars(document) = 3
    /\ document[1].userData # NULL
    /\ document[1].userData[1].wordCount = 1
    /\ document[1].userData[1].sentenceCount = 1
    /\ document[2].userData # NULL
    /\ document[2].userData[1].wordCount = 0

\* the paragraphs of doc in document order
InDocumentOrder(doc) == [i \in 1..Len(doc) |-> i]

\* C18: once onTextChanged has been entered it reaches its end; while it
\* walks it has visited the paragraphs up to the one it stands on, each
\* once and in order, and has published nothing; at its end it has visited
\* every paragraph from the first to the last once and in order and has
\* published one batch, that of the whole document.
C18_RecomputeCompletes ==
    /\ [](walk.pc = "loop"
          => /\ walk.visited = SubSeq(InDocumentOrder(document), 1, walk.block)
             /\ walk.block <= Len(document)
             /\ walk.batches = 0)
    /\ [](walk.pc = "done"
          => /\ walk.visited = InDocumentOrder(document)
             /\ walk.batches = 1
             /\ emitted = WholeDocumentBatch(document))
    /\ (walk.pc = "loop" ~> walk.pc = "done")

\* a document of one paragraph, where the first block is the last, walked
C18_Witness ==
    /\ walk.pc = "done"
    /\ Len(document) = 1
    /\ walk.visited = <<1>>
    /\ walk.batches = 1
    /\ d.wordCount = 2

\* C19: a text that ends in a letter or digit followed by one separator,
\* or by one separator and a space, has the counts of the text up to that
\* letter or digit: the separator adds nothing to the long-word test nor
\* to the alphanumeric characters.
C19_TrailingSeparatorDropped ==
    LET n == Len(text)
    IN  /\ (/\ n >= 2
            /\ isSeparator(text[n])
            /\ isLetterOrNumber(text[n - 1]))
           => counted = countWords(SubSeq(text, 1, n - 1))
        /\ (/\ n >= 3
            /\ text[n] = " "
            /\ isSeparator(text[n - 1])
            /\ isLetterOrNumber(text[n - 2]))
           => counted = countWords(SubSeq(text, 1, n - 2))

\* six letters and a separator: with the separator the word would be long
C19_Witness ==
    /\ Len(text) = 7
    /\ IsWordRun(text, 1, 6)
    /\ isSeparator(text[7])
    /\ counted = [words |-> 1, lixLongWords |-> 0, alphaNumericCharacters |-> 6]

\* the positions of t where a word starts
WordStarts(t) ==
    {i \in 1..Len(t) :
        /\ isLetterOrNumber(t[i])
        /\ \/ i = 1
           \/ isSpace(t[i - 1])
           \/ /\ ~isLetterOrNumber(t[i - 1])
              /\ (i = 2 \/ ~isLetterOrNumber(t[i - 2]))}

\* t without its character at index i
RemoveAt(t, i) == SubSeq(t, 1, i - 1) \o SubSeq(t, i + 1, Len(t))

\* C20: countWords returns as words the number of letters or digits that
\* are first in the text, or follow whitespace, or follow a character that
\* is neither letter nor digit and itself is first or follows one that is
\* neither; a character that is neither, met while the scan is outside a
\* word, can be taken out of the text without changing a result; the empty
\* text gives three zeros.
C20_WordCountReference ==
    /\ counted.words = Cardinality(WordStarts(text))
    /\ \A i \in 1..Len(text) :
          (/\ ~isLetterOrNumber(text[i])
           /\ ~countWordsRange(text, 1, i - 1, countWordsStart).inWord)
          => countWords(RemoveAt(text, i)) = counted
    /\ text = <<>>
       => counted = [words |-> 0, lixLongWords |-> 0, alphaNumericCharacters |-> 0]

\* a hyphenated word, a run of separators and spaces outside a word, and
\* a second word
C20_Witness ==
    /\ Len(text) = 8
    /\ isLetterOrNumber(text[1])
    /\ isSeparator(text[2])
    /\ isLetterOrNumber(text[3])
    /\ isSpace(text[4])
    /\ isSeparator(text[5])
    /\ isSeparator(text[6])
    /\ isSpace(text[7])
    /\ isLetterOrNumber(text[8])
    /\ counted.words = 2

=============================================================================
